---- MODULE Spec2Model ----
(***************************************************************************)
(* Model of teuthology/orchestra/console.py: PhysicalConsole (an ipmitool  *)
(* driver built on pexpect) and VirtualConsole (a libvirt call-through).   *)
(* One console object runs one operation at a time; an operation is a      *)
(* sequence of steps (spawn, expect, sleep) and `pc` is its position.      *)
(* Time is in whole time units; `now` is time.time() measured from the     *)
(* call of the current operation.                                          *)
(***************************************************************************)
EXTENDS Integers, Sequences, FiniteSets

(* ------------------------------ bounds -------------------------------- *)
\* self.timeout and the timeout arguments are drawn from 0..MaxTimeout
\* (and the default); an expect returns after 0..MaxStep units or exactly
\* at its bound.
MaxTimeout == 3
MaxStep == 0
MaxInterval == 2
MaxCount == 3
MaxLog == 6
\* the clock of SpecLive is read up to here; no operation gets this far
MaxClock == 700

(* ------------------------- program constants -------------------------- *)
DefaultTimeout == 20
DefaultAttempts == 2
LoginTimeout == 300
OffTimeout == 60
DefaultInterval == 30

Unset == 0 - 1

Timeouts == (0..MaxTimeout) \cup {DefaultTimeout}
\* a timeout argument; 0 stands for None as well (`timeout or self.timeout`)
TimeoutArgs == 0..MaxTimeout
Intervals == (1..MaxInterval) \cup {DefaultInterval}
PowerStates == {"on", "off"}

VARIABLES
    kind,        \* "physical" or "virtual": the class that was instantiated
    timeout,     \* self.timeout
    shortname,   \* self.shortname
    args,        \* the ipmiuser, ipmipass, ipmidomain arguments of __init__
    config,      \* config.ipmi_user, config.ipmi_password, config.ipmi_domain
    ipmiuser, ipmipass, ipmidomain,   \* the resolved credentials
    has_ipmi_credentials,             \* self.has_ipmi_credentials
    op,          \* the public operation in progress, or "none"
    pc,          \* position inside the operation
    result,      \* what the operation returned or raised
    now,         \* time.time()
    arg_state,   \* check_power's state argument
    interval,    \* power_off_for_interval's argument
    wl_t, wl_i, wl_start, wl_r,          \* locals of _wait_for_login
    wl_to, wl_eof,                       \* its sessions ended by TIMEOUT / EOF
    ex_r,                                \* local r of _exit_session
    cp_timeout, cp_t, cp_total, cp_ta, cp_r,   \* locals of check_power
    cp_enter, cp_last, cp_n, cp_hits, cp_slept,  \* entry time, last bound, sessions, matches, last sleep
    cp_spawn,                            \* time of its latest spawn
    tr_start, tr_r, tr_n,                \* locals of the transition loops
    live,        \* commands of the session processes that are alive
    unexited,    \* a 'sol activate' session has not been sent '~.' yet
    log,         \* the first MaxLog spawn/sleep events of the operation
    libvirt,     \* the libvirt module was imported (it is None otherwise)
    v_state, v_status, v_connection, v_domain   \* the VirtualConsole object

\* the fields __init__ sets apart from self.timeout
ctorVars == <<kind, shortname, args, config, ipmiuser, ipmipass, ipmidomain,
             has_ipmi_credentials>>
objVars == <<ctorVars, timeout>>
callVars == <<op, pc, result, now, arg_state, interval>>
wlVars == <<wl_t, wl_i, wl_start, wl_r, wl_to, wl_eof, ex_r>>
cpVars == <<cp_timeout, cp_t, cp_total, cp_ta, cp_r, cp_enter, cp_last, cp_n, cp_hits,
           cp_slept, cp_spawn>>
trVars == <<tr_start, tr_r, tr_n>>
sessVars == <<live, unexited, log>>
virtVars == <<libvirt, v_state, v_status, v_connection, v_domain>>
vars == <<objVars, callVars, wlVars, cpVars, trVars, sessVars, virtVars>>

(* ------------------------------ helpers ------------------------------- *)
Min(a, b) == IF a < b THEN a ELSE b
Count(n) == Min(n + 1, MaxCount)

\* `x or y` on numbers / None: a falsy x (None or 0) gives y
Or(x, y) == IF x = 0 THEN y ELSE x

\* how long an expect with bound t can take before it returns
Durations(t) == {d \in 0..t : d <= MaxStep \/ d = t}

\* pexpect's expect(): the stream matches the (single) real pattern, closes,
\* or the bound passes; TIMEOUT is reported exactly at the bound.
Outcomes(t) ==
    {[out |-> o, d |-> d] : o \in {"match", "EOF"}, d \in Durations(t)}
        \cup {[out |-> "TIMEOUT", d |-> t]}

\* expect on a child whose stream is already closed reports EOF at once
OutcomesOn(alive, t) ==
    IF alive THEN Outcomes(t) ELSE {[out |-> "EOF", d |-> 0]}

\* index of the outcome in the pattern list handed to expect, or Unset when
\* the list does not hold it (pexpect then raises it as an exception)
IndexIn(patterns, o) ==
    IF \E k \in 1..Len(patterns) : patterns[k] = o
    THEN (CHOOSE k \in 1..Len(patterns) : patterns[k] = o) - 1
    ELSE Unset

\* Python's None among strings, and how str.format writes a value
None == "<None>"
Fmt(v) == IF v = None THEN "None" ELSE v

\* `x or y` on strings: a falsy x (None or the empty string) gives y
or_else(x, y) == IF x \in {None, ""} THEN y ELSE x

\* a flag that is set as soon as one value is there
any_not_none(vals) == \E k \in 1..Len(vals) : vals[k] # None

\* `all(map(lambda x: x is not None, [...]))`
all_not_none(vals) == \A k \in 1..Len(vals) : vals[k] # None

\* a template with user and password in each other's place
build_command_swapped(subcommand) ==
    "ipmitool -H " \o Fmt(shortname) \o "." \o Fmt(ipmidomain) \o " -I lanplus -U "
        \o Fmt(ipmipass) \o " -P " \o Fmt(ipmiuser) \o " " \o subcommand

\* _build_command: the template with the fields of the console filled in
build_command(subcommand) ==
    "ipmitool -H " \o Fmt(shortname) \o "." \o Fmt(ipmidomain) \o " -I lanplus -U "
        \o Fmt(ipmiuser) \o " -P " \o Fmt(ipmipass) \o " " \o subcommand

\* a check that refuses to go on without credentials
check_credentials_fatal(has) == IF has THEN "ok" ELSE "raised"

\* _check_credentials: log.error when the flag is false, and return
check_credentials(has) == IF has THEN "ok" ELSE "logged"

\* one log entry per started process (err: the credentials error was logged
\* first; line: the command line handed to the process) or sleep
SpawnEv(cmd) ==
    [e |-> "spawn", cmd |-> cmd, d |-> 0, line |-> build_command(cmd),
     err |-> (check_credentials(has_ipmi_credentials) = "logged")]
PopenEv(cmd) ==
    [e |-> "popen", cmd |-> cmd, d |-> 0, line |-> build_command(cmd),
     err |-> (check_credentials(has_ipmi_credentials) = "logged")]
SleepEv(d) == [e |-> "sleep", cmd |-> "", d |-> d, line |-> "", err |-> FALSE]
Logged(l, ev) == IF Len(l) < MaxLog THEN Append(l, ev) ELSE l

\* the session process is over once its stream closed, or once a one-shot
\* command printed its line; a timed-out or interactive session lives on
Ends(interactive, o) == o = "EOF" \/ (o = "match" /\ ~interactive)
Settled(cmd, interactive, o) == IF Ends(interactive, o) THEN <<>> ELSE <<cmd>>

\* _pexpect_spawn: check the credentials, build the command line and start
\* one more ipmitool process
\* one more ipmitool process next to `sessions` (none if the credentials
\* check did not return)
spawned(sessions, cmd) ==
    IF check_credentials(has_ipmi_credentials) = "raised" THEN sessions
    ELSE Append(sessions, cmd)
spawn_logged(l, ev) ==
    IF check_credentials(has_ipmi_credentials) = "raised" THEN l ELSE Logged(l, ev)
pexpect_spawn(cmd) ==
    /\ live' = spawned(live, cmd)
    /\ log' = spawn_logged(log, SpawnEv(cmd))

Transitions == {"power_cycle", "hard_reset", "power_on", "power_off"}
PhysicalOps == Transitions \cup {"check_power", "check_status", "power_off_for_interval"}
Raised == {"ConsoleError", "TIMEOUT", "EOF"}

(* ------------------------------- Init --------------------------------- *)
\* ls.get_status() handing back None
NoStatus == [given |-> FALSE, is_vm |-> "absent", vm_host |-> "absent"]
FreshCall ==
    /\ op = "none" /\ pc = "idle" /\ result = "none" /\ now = 0
    /\ arg_state = "none" /\ interval = 0
    /\ wl_t = Unset /\ wl_i = 0 /\ wl_start = 0 /\ wl_r = Unset
    /\ wl_to = 0 /\ wl_eof = 0 /\ ex_r = Unset
    /\ cp_timeout = 0 /\ cp_t = 0 /\ cp_total = 0 /\ cp_ta = 0 /\ cp_r = Unset
    /\ cp_enter = Unset /\ cp_last = 0 /\ cp_n = 0 /\ cp_hits = 0 /\ cp_slept = 0
    /\ cp_spawn = 0
    /\ tr_start = 0 /\ tr_r = Unset /\ tr_n = 0
    /\ live = <<>> /\ unexited = FALSE /\ log = <<>>

\* the three credentials, as arguments or as configuration entries
NoCredentials == [user |-> None, pass |-> None, domain |-> None]
ExampleCredentials == [user |-> "u", pass |-> "p", domain |-> "example.com"]
Credentials ==
    {[user |-> u, pass |-> p, domain |-> d] :
        u \in {None, "u"}, p \in {None, "p"}, d \in {None, "example.com"}}

\* PhysicalConsole.__init__(name, ipmiuser, ipmipass, ipmidomain, timeout=to)
\* with `short` for remote.getShortName(name)
PhysicalConsole(short, a, cfg, to) ==
    /\ kind = "physical"
    /\ shortname = short
    /\ timeout = to
    /\ args = a /\ config = cfg
    /\ ipmiuser = or_else(a.user, cfg.user)
    /\ ipmipass = or_else(a.pass, cfg.pass)
    /\ ipmidomain = or_else(a.domain, cfg.domain)
    /\ has_ipmi_credentials = all_not_none(<<ipmiuser, ipmipass, ipmidomain>>)

\* a VirtualConsole has none of these fields
VirtualConsole ==
    /\ kind = "virtual"
    /\ shortname = "cephN" /\ timeout = 0
    /\ args = NoCredentials /\ config = NoCredentials
    /\ ipmiuser = None /\ ipmipass = None /\ ipmidomain = None
    /\ has_ipmi_credentials = FALSE

Init ==
    /\ \/ \E to \in Timeouts :
            PhysicalConsole("cephN", ExampleCredentials, NoCredentials, to)
       \/ VirtualConsole
    /\ FreshCall
    /\ libvirt \in (IF kind = "virtual" THEN BOOLEAN ELSE {TRUE})
    /\ v_state = "new" /\ v_status = NoStatus
    /\ v_connection = FALSE /\ v_domain = FALSE

(* -------------------------- _wait_for_login --------------------------- *)
\* the pattern lists handed to expect, by the kind of outcome each entry takes
LoginPatterns == <<"match", "TIMEOUT", "EOF">>
ExitPatterns == <<"match", "TIMEOUT", "EOF">>

\* a loop that runs once too often
more_attempts_inclusive(i, attempts) == i <= attempts

\* `for i in range(0, attempts)`
more_attempts(i, attempts) == i < attempts

\* the out-of-band deactivation after a Timeout only
needs_deactivate_timeout(r) == r = 1

\* _exit_session: `if r != 0: self._pexpect_spawn('sol deactivate')`
needs_deactivate(r) == r # 0

\* returning on a match before the session is exited
after_login_expect_early(r) == IF r = 0 THEN "wl_exited" ELSE "ex_send"

\* what follows the login expect: _exit_session(child), whatever r is
after_login_expect(r) == "ex_send"

\* check_status without the except clause
check_status_result_uncaught(exc) == IF exc = "none" THEN "True" ELSE exc

\* check_status: try / except Exception around _wait_for_login
check_status_result(exc) == IF exc = "none" THEN "True" ELSE "False"

\* _wait_for_login(timeout): t = timeout or self.timeout
EnterWaitForLogin(targ) ==
    /\ wl_t' = Or(targ, timeout)
    /\ wl_i' = 0
    /\ pc' = "wl_for"
    /\ UNCHANGED <<wl_start, wl_r, wl_to, wl_eof, ex_r>>

\* _wait_for_login returns (exc = "none") or raises exc into its caller
WaitForLoginEnds(exc) ==
    /\ pc' = "done"
    /\ result' = IF op = "check_status" THEN check_status_result(exc)
                 ELSE IF exc = "none" THEN "None" ELSE exc

WlFor ==
    /\ pc = "wl_for"
    /\ IF more_attempts(wl_i, DefaultAttempts)
       THEN /\ wl_start' = now
            /\ pc' = "wl_while"
            /\ UNCHANGED result
       ELSE /\ WaitForLoginEnds("ConsoleError")
            /\ UNCHANGED wl_start
    /\ UNCHANGED <<objVars, op, now, arg_state, interval, wl_t, wl_i, wl_r,
                   wl_to, wl_eof, ex_r, cpVars, trVars, sessVars, virtVars>>

WlWhile ==
    /\ pc = "wl_while"
    /\ IF now - wl_start < wl_t
       THEN /\ pexpect_spawn("sol activate")
            /\ unexited' = TRUE
            /\ pc' = "wl_expect"
            /\ UNCHANGED wl_i
       ELSE /\ wl_i' = wl_i + 1
            /\ pc' = "wl_for"
            /\ UNCHANGED sessVars
    /\ UNCHANGED <<objVars, op, result, now, arg_state, interval, wl_t, wl_start,
                   wl_r, wl_to, wl_eof, ex_r, cpVars, trVars, virtVars>>

WlExpect ==
    /\ pc = "wl_expect"
    /\ \E x \in Outcomes(wl_t - (now - wl_start)) :
         /\ wl_r' = IndexIn(LoginPatterns, x.out)
         /\ now' = now + x.d
         /\ live' = Settled("sol activate", TRUE, x.out)
         /\ wl_to' = IF x.out = "TIMEOUT" THEN Count(wl_to) ELSE wl_to
         /\ wl_eof' = IF x.out = "EOF" THEN Count(wl_eof) ELSE wl_eof
         /\ pc' = after_login_expect(IndexIn(LoginPatterns, x.out))
    /\ UNCHANGED <<objVars, op, result, arg_state, interval, wl_t, wl_i, wl_start,
                   ex_r, cpVars, trVars, unexited, log, virtVars>>

\* _exit_session: child.send('~.')
ExitSend ==
    /\ pc = "ex_send"
    /\ unexited' = FALSE
    /\ pc' = "ex_expect"
    /\ UNCHANGED <<objVars, op, result, now, arg_state, interval, wlVars, cpVars,
                   trVars, live, log, virtVars>>

\* _exit_session: the expect and the out-of-band 'sol deactivate'
ExitExpect ==
    /\ pc = "ex_expect"
    /\ \E x \in OutcomesOn(live # <<>>, Or(0, timeout)) :
         LET r == IndexIn(ExitPatterns, x.out)
             left == IF live = <<>> THEN <<>>
                     ELSE Settled("sol activate", FALSE, x.out)
         IN /\ ex_r' = r
            /\ now' = now + x.d
            /\ IF needs_deactivate(r)
               THEN /\ live' = spawned(left, "sol deactivate")
                    /\ log' = spawn_logged(log, SpawnEv("sol deactivate"))
               ELSE /\ live' = left
                    /\ UNCHANGED log
    /\ pc' = "wl_exited"
    /\ UNCHANGED <<objVars, op, result, arg_state, interval, wl_t, wl_i, wl_start,
                   wl_r, wl_to, wl_eof, cpVars, trVars, unexited, virtVars>>

IsSolActivate(c) == c = "sol activate"

\* back in _wait_for_login: `if r == 0: return`, else around the while loop
WlAfterExit ==
    /\ pc = "wl_exited"
    /\ live' = SelectSeq(live, IsSolActivate)
    /\ IF wl_r = 0
       THEN WaitForLoginEnds("none")
       ELSE pc' = "wl_while" /\ UNCHANGED result
    /\ UNCHANGED <<objVars, op, now, arg_state, interval, wlVars, cpVars, trVars,
                   unexited, log, virtVars>>

(* ----------------------------- check_power ---------------------------- *)
CpPatterns == <<"match", "EOF", "TIMEOUT">>

\* a loop that also runs when the total has reached the timeout
cp_continue_inclusive(total, to) == total <= to

\* `while total < timeout`
cp_continue(total, to) == total < to

\* the index of EOF taken for the index of the match
cp_matched_eof(r) == r = 1

\* `if r == 0: return True`
cp_matched(r) == r = 0

\* sleeping the whole bound after every EOF
sleep_amount_whole(r, t, ta, tb) == IF r = 1 THEN t ELSE 0

\* `elif r == 1: if tb - ta < t: time.sleep(t - (tb - ta))`
sleep_amount(r, t, ta, tb) == IF r = 1 /\ tb - ta < t THEN t - (tb - ta) ELSE 0

\* the assignment of line 109 made to the field instead of the local
self_timeout_assigned(targ, self_to) == Or(targ, self_to)

\* `timeout = timeout or self.timeout` binds the local name: self.timeout
\* is what it was
self_timeout(targ, self_to) == self_to

\* check_power(state, timeout), entered at time `at`: the assignments
\* before the loop
EnterCheckPower(state, targ, at) ==
    /\ arg_state' = state
    /\ timeout' = self_timeout(targ, timeout)
    /\ cp_timeout' = Or(targ, timeout)
    /\ cp_t' = 1
    /\ cp_total' = 1
    /\ cp_ta' = at
    /\ cp_enter' = at
    /\ pc' = "cp_while"
    /\ UNCHANGED <<cp_r, cp_last, cp_n, cp_hits, cp_slept, cp_spawn>>

\* check_power returns val to its caller; power_on and power_off only log it
CheckPowerEnds(val) ==
    /\ pc' = "done"
    /\ result' = IF op = "check_power" THEN val ELSE "None"

CpWhile ==
    /\ pc = "cp_while"
    /\ IF cp_continue(cp_total, cp_timeout)
       THEN /\ pexpect_spawn("power status")
            /\ cp_n' = cp_n + 1
            /\ cp_spawn' = now
            /\ pc' = "cp_expect"
            /\ UNCHANGED result
       ELSE /\ CheckPowerEnds("False")
            /\ UNCHANGED <<live, log, cp_n, cp_spawn>>
    /\ UNCHANGED <<objVars, op, now, arg_state, interval, wlVars, cp_timeout, cp_t,
                   cp_total, cp_ta, cp_r, cp_enter, cp_last, cp_hits, cp_slept,
                   trVars, unexited, virtVars>>

CpExpect ==
    /\ pc = "cp_expect"
    /\ \E x \in Outcomes(cp_t) :
         LET r == IndexIn(CpPatterns, x.out)
             tb == now + x.d
             sl == sleep_amount(r, cp_t, cp_ta, tb)
         IN /\ cp_r' = r
            /\ cp_last' = cp_t
            /\ cp_hits' = IF x.out = "match" THEN cp_hits + 1 ELSE cp_hits
            /\ live' = Settled("power status", FALSE, x.out)
            /\ IF cp_matched(r)
               THEN /\ now' = tb
                    /\ cp_slept' = 0
                    /\ CheckPowerEnds("True")
                    /\ UNCHANGED <<cp_ta, cp_t, cp_total, log>>
               ELSE /\ now' = tb + sl
                    /\ cp_slept' = sl
                    /\ log' = IF sl > 0 THEN Logged(log, SleepEv(sl)) ELSE log
                    /\ cp_ta' = tb
                    /\ cp_t' = cp_t * 2
                    /\ cp_total' = cp_total + cp_t * 2
                    /\ pc' = "cp_while"
                    /\ UNCHANGED result
    /\ UNCHANGED <<objVars, op, arg_state, interval, wlVars, cp_timeout, cp_enter,
                   cp_n, cp_spawn, trVars, unexited, virtVars>>

(* ----------------------- power-transition operations ------------------ *)
\* the subcommand each transition spawns
TrCmd(o) ==
    CASE o = "power_cycle" -> "power cycle"
      [] o = "hard_reset" -> "power reset"
      [] o = "power_on" -> "power on"
      [] o = "power_off" -> "power off"

\* the pattern list each transition hands to expect: none of them lists
\* TIMEOUT, and power_cycle passes the one string only
TrPatterns(o) == IF o = "power_cycle" THEN <<"match">> ELSE <<"match", "EOF">>

\* power_on confirming with the login wait, as power_cycle does
confirm_step_login(o) ==
    CASE o = "power_cycle" -> [fn |-> "wait_for_login", state |-> "none", t |-> LoginTimeout]
      [] o = "hard_reset" -> [fn |-> "wait_for_login", state |-> "none", t |-> 0]
      [] o = "power_on" -> [fn |-> "wait_for_login", state |-> "none", t |-> 0]
      [] o = "power_off" -> [fn |-> "check_power", state |-> "off", t |-> OffTimeout]

\* the call that follows the acknowledgment step of each transition
confirm_step(o) ==
    CASE o = "power_cycle" -> [fn |-> "wait_for_login", state |-> "none", t |-> LoginTimeout]
      [] o = "hard_reset" -> [fn |-> "wait_for_login", state |-> "none", t |-> 0]
      [] o = "power_on" -> [fn |-> "check_power", state |-> "on", t |-> 0]
      [] o = "power_off" -> [fn |-> "check_power", state |-> "off", t |-> OffTimeout]

Confirm(o, at) ==
    LET c == confirm_step(o)
    IN IF c.fn = "wait_for_login"
       THEN EnterWaitForLogin(c.t) /\ UNCHANGED <<cpVars, arg_state, timeout>>
       ELSE EnterCheckPower(c.state, c.t, at) /\ UNCHANGED wlVars

\* an exception leaves the operation
Raise(exc) == pc' = "done" /\ result' = exc

\* power_cycle: one spawn, one expect, then the login wait
PowerCycleExpect ==
    /\ op = "power_cycle" /\ pc = "tr_expect"
    /\ \E x \in Outcomes(timeout) :
         LET r == IndexIn(TrPatterns(op), x.out)
         IN /\ now' = now + x.d
            /\ live' = Settled(TrCmd(op), FALSE, x.out)
            /\ tr_r' = r
            /\ IF r = Unset
               THEN Raise(x.out) /\ UNCHANGED <<wlVars, cpVars, arg_state, timeout>>
               ELSE Confirm(op, now + x.d) /\ UNCHANGED result
    /\ UNCHANGED <<ctorVars, op, interval, tr_start, tr_n, unexited, log, virtVars>>

\* a loop without a condition
tr_continue_always(time, start, to) == TRUE

\* `while time.time() - start < self.timeout`
tr_continue(time, start, to) == time - start < to

\* hard_reset / power_on / power_off: the head of the loop
AckLoopHead(o) ==
    /\ op = o /\ pc = "tr_while"
    /\ IF tr_continue(now, tr_start, timeout)
       THEN /\ pexpect_spawn(TrCmd(o))
            /\ tr_n' = Count(tr_n)
            /\ pc' = "tr_expect"
            /\ UNCHANGED <<wlVars, cpVars, arg_state, timeout>>
       ELSE /\ Confirm(o, now)
            /\ UNCHANGED <<live, log, tr_n>>
    /\ UNCHANGED <<ctorVars, op, result, now, interval, tr_start, tr_r, unexited,
                   virtVars>>

\* ... the expect in the loop body and `if r == 0: break`
AckLoopExpect(o) ==
    /\ op = o /\ pc = "tr_expect"
    /\ \E x \in Outcomes(timeout) :
         LET r == IndexIn(TrPatterns(o), x.out)
         IN /\ now' = now + x.d
            /\ live' = Settled(TrCmd(o), FALSE, x.out)
            /\ tr_r' = r
            /\ IF r = Unset
               THEN Raise(x.out) /\ UNCHANGED <<wlVars, cpVars, arg_state, timeout>>
               ELSE IF r = 0
               THEN Confirm(o, now + x.d) /\ UNCHANGED result
               ELSE /\ pc' = "tr_while"
                    /\ UNCHANGED <<result, wlVars, cpVars, arg_state, timeout>>
    /\ UNCHANGED <<ctorVars, op, interval, tr_start, tr_n, unexited, log, virtVars>>

HardResetLoop == AckLoopHead("hard_reset")
HardResetExpect == AckLoopExpect("hard_reset")
PowerOnLoop == AckLoopHead("power_on")
PowerOnExpect == AckLoopExpect("power_on")
PowerOffLoop == AckLoopHead("power_off")
PowerOffExpect == AckLoopExpect("power_off")

(* ------------------------ power_off_for_interval ---------------------- *)
\* sleeping the default instead of the requested interval
interval_sleep_default(iv) == DefaultInterval

\* `time.sleep(interval)`
interval_sleep(iv) == iv

\* expect with the one pattern string: TIMEOUT and EOF are raised
PiExpect(cmd, next) ==
    \E x \in Outcomes(timeout) :
        /\ now' = now + x.d
        /\ live' = Settled(cmd, FALSE, x.out)
        /\ tr_r' = IndexIn(<<"match">>, x.out)
        /\ IF x.out = "match"
           THEN next /\ UNCHANGED result
           ELSE Raise(x.out) /\ UNCHANGED wlVars

PiOffExpect ==
    /\ op = "power_off_for_interval" /\ pc = "pi_off_expect"
    /\ PiExpect("power off", pc' = "pi_sleep" /\ UNCHANGED wlVars)
    /\ UNCHANGED <<objVars, op, arg_state, interval, cpVars, tr_start, tr_n,
                   unexited, log, virtVars>>

PiSleep ==
    /\ pc = "pi_sleep"
    /\ now' = now + interval_sleep(interval)
    /\ log' = Logged(log, SleepEv(interval_sleep(interval)))
    /\ pc' = "pi_on_spawn"
    /\ UNCHANGED <<objVars, op, result, arg_state, interval, wlVars, cpVars, trVars,
                   live, unexited, virtVars>>

PiOnSpawn ==
    /\ pc = "pi_on_spawn"
    /\ pexpect_spawn("power on")
    /\ pc' = "pi_on_expect"
    /\ UNCHANGED <<objVars, op, result, now, arg_state, interval, wlVars, cpVars,
                   trVars, unexited, virtVars>>

PiOnExpect ==
    /\ op = "power_off_for_interval" /\ pc = "pi_on_expect"
    /\ PiExpect("power on", EnterWaitForLogin(0))
    /\ UNCHANGED <<objVars, op, arg_state, interval, cpVars, tr_start, tr_n,
                   unexited, log, virtVars>>

(* --------------------------- the public calls ------------------------- *)
Idle == kind = "physical" /\ op = "none" /\ pc = "idle"

check_power(state, targ) ==
    /\ Idle
    /\ op' = "check_power"
    /\ EnterCheckPower(state, targ, now)
    /\ UNCHANGED <<ctorVars, result, now, interval, wlVars, trVars, sessVars, virtVars>>

check_status(targ) ==
    /\ Idle
    /\ op' = "check_status"
    /\ EnterWaitForLogin(targ)
    /\ UNCHANGED <<objVars, result, now, arg_state, interval, cpVars, trVars,
                   sessVars, virtVars>>

power_cycle ==
    /\ Idle
    /\ op' = "power_cycle"
    /\ pexpect_spawn("power cycle")
    /\ pc' = "tr_expect"
    /\ UNCHANGED <<objVars, result, now, arg_state, interval, wlVars, cpVars, trVars,
                   unexited, virtVars>>

\* hard_reset / power_on / power_off: `start = time.time()`
CallAckLoop(o) ==
    /\ Idle
    /\ op' = o
    /\ tr_start' = now
    /\ pc' = "tr_while"
    /\ UNCHANGED <<objVars, result, now, arg_state, interval, wlVars, cpVars, tr_r,
                   tr_n, sessVars, virtVars>>

hard_reset == CallAckLoop("hard_reset")
power_on == CallAckLoop("power_on")
power_off == CallAckLoop("power_off")

power_off_for_interval(iv) ==
    /\ Idle
    /\ op' = "power_off_for_interval"
    /\ interval' = iv
    /\ pexpect_spawn("power off")
    /\ pc' = "pi_off_expect"
    /\ UNCHANGED <<objVars, result, now, arg_state, wlVars, cpVars, trVars, unexited,
                   virtVars>>

\* spawn_sol_log(dest_path): check the credentials, build the 'sol activate'
\* command line, start it through subprocess.Popen and hand back the process
spawn_sol_log ==
    /\ Idle
    /\ op' = "spawn_sol_log"
    /\ log' = spawn_logged(log, PopenEv("sol activate"))
    /\ result' = "Popen"
    /\ pc' = "done"
    /\ UNCHANGED <<objVars, now, arg_state, interval, wlVars, cpVars, trVars, live,
                   unexited, virtVars>>

\* the caller takes the result; the console is ready for the next call
Return ==
    /\ pc = "done"
    /\ op' = "none" /\ pc' = "idle" /\ result' = "none" /\ now' = 0
    /\ arg_state' = "none" /\ interval' = 0
    /\ wl_t' = Unset /\ wl_i' = 0 /\ wl_start' = 0 /\ wl_r' = Unset
    /\ wl_to' = 0 /\ wl_eof' = 0 /\ ex_r' = Unset
    /\ cp_timeout' = 0 /\ cp_t' = 0 /\ cp_total' = 0 /\ cp_ta' = 0 /\ cp_r' = Unset
    /\ cp_enter' = Unset /\ cp_last' = 0 /\ cp_n' = 0 /\ cp_hits' = 0 /\ cp_slept' = 0
    /\ cp_spawn' = 0
    /\ tr_start' = 0 /\ tr_r' = Unset /\ tr_n' = 0
    /\ live' = <<>> /\ unexited' = FALSE /\ log' = <<>>
    /\ v_state' = IF v_state = "failed" THEN "new" ELSE v_state
    /\ UNCHANGED <<objVars, libvirt, v_status, v_connection, v_domain>>

(* ---------------------------- VirtualConsole -------------------------- *)
\* what ls.get_status() can hand back: None, or a record whose is_vm and
\* vm_host entries are absent, or hold a value
StatusInfos ==
    {NoStatus} \cup
    {[given |-> TRUE, is_vm |-> a, vm_host |-> h] :
        a \in {"absent", "False", "True"}, h \in {"absent", "None", "name"}}

\* VirtualConsole.__init__: the exception it raises, or how it returns
\* ("inert": the early return; "bound" / "unbound": vm_domain set or not)
virtual_init(libvirt_loaded, status, listed) ==
    IF ~libvirt_loaded THEN "RuntimeError"
    ELSE IF ~status.given THEN "AttributeError"
    ELSE IF status.is_vm = "True" /\ status.vm_host = "absent" THEN "KeyError"
    ELSE IF status.is_vm = "True" /\ status.vm_host = "None" THEN "inert"
    ELSE IF status.is_vm # "True" THEN "UnboundLocalError"
    ELSE IF listed THEN "bound" ELSE "unbound"

\* VirtualConsole.check_power: `self.vm_domain.info[0]`
virtual_check_power(has_domain) ==
    IF ~has_domain THEN "AttributeError" ELSE "TypeError"

VirtualInit ==
    /\ kind = "virtual" /\ v_state = "new" /\ pc = "idle"
    /\ \E status \in StatusInfos, listed \in BOOLEAN :
         LET res == virtual_init(libvirt, status, listed)
         IN /\ v_state' = IF res \in {"inert", "bound", "unbound"}
                           THEN "constructed" ELSE "failed"
            /\ v_connection' = (res \in {"bound", "unbound"})
            /\ v_domain' = (res = "bound")
            /\ result' = IF res \in {"inert", "bound", "unbound"} THEN "None" ELSE res
            /\ v_status' = status
    /\ op' = "VirtualConsole"
    /\ pc' = "done"
    /\ UNCHANGED <<objVars, now, arg_state, interval, wlVars, cpVars, trVars,
                   sessVars, libvirt>>

VirtualCheckPower ==
    /\ kind = "virtual" /\ v_state = "constructed" /\ pc = "idle"
    /\ \E state \in PowerStates :
         /\ arg_state' = state
         /\ result' = virtual_check_power(v_domain)
    /\ op' = "check_power"
    /\ pc' = "done"
    /\ UNCHANGED <<objVars, now, interval, wlVars, cpVars, trVars, sessVars, virtVars>>

(* ------------------------------- Next --------------------------------- *)
Next ==
    \/ \E s \in PowerStates, ta \in TimeoutArgs : check_power(s, ta)
    \/ \E ta \in TimeoutArgs : check_status(ta)
    \/ power_cycle
    \/ hard_reset
    \/ power_on
    \/ power_off
    \/ \E iv \in Intervals : power_off_for_interval(iv)
    \/ spawn_sol_log
    \/ WlFor \/ WlWhile \/ WlExpect \/ ExitSend \/ ExitExpect \/ WlAfterExit
    \/ CpWhile \/ CpExpect
    \/ PowerCycleExpect
    \/ HardResetLoop \/ HardResetExpect
    \/ PowerOnLoop \/ PowerOnExpect
    \/ PowerOffLoop \/ PowerOffExpect
    \/ PiOffExpect \/ PiSleep \/ PiOnSpawn \/ PiOnExpect
    \/ Return
    \/ VirtualInit \/ VirtualCheckPower

Spec == Init /\ [][Next]_vars

(* ------------- consoles built with and without credentials ----------- *)
\* the part of the state a PhysicalConsole does not use
NoVirtual ==
    /\ libvirt = TRUE
    /\ v_state = "new" /\ v_status = NoStatus
    /\ v_connection = FALSE /\ v_domain = FALSE

\* the constructor on every combination of given and missing arguments and
\* configuration entries; the calls that follow use the fields it set
InitCtor ==
    /\ \E a \in Credentials, cfg \in Credentials, to \in Timeouts :
          PhysicalConsole("cephN", a, cfg, to)
    /\ FreshCall
    /\ NoVirtual

CtorNext == spawn_sol_log \/ Return

SpecCtor == InitCtor /\ [][CtorNext]_vars

\* every physical operation on consoles with all, some or none of the
\* credentials (nothing configured), with a short timeout
CredsTimeout == 2
CredsCases ==
    {ExampleCredentials, NoCredentials,
     [user |-> None, pass |-> "p", domain |-> "example.com"]}

InitCreds ==
    /\ \E a \in CredsCases : PhysicalConsole("cephN", a, NoCredentials, CredsTimeout)
    /\ FreshCall
    /\ NoVirtual

PhysicalNext ==
    \/ \E s \in PowerStates, ta \in TimeoutArgs : check_power(s, ta)
    \/ \E ta \in TimeoutArgs : check_status(ta)
    \/ power_cycle
    \/ hard_reset
    \/ power_on
    \/ power_off
    \/ \E iv \in Intervals : power_off_for_interval(iv)
    \/ spawn_sol_log
    \/ WlFor \/ WlWhile \/ WlExpect \/ ExitSend \/ ExitExpect \/ WlAfterExit
    \/ CpWhile \/ CpExpect
    \/ PowerCycleExpect
    \/ HardResetLoop \/ HardResetExpect
    \/ PowerOnLoop \/ PowerOnExpect
    \/ PowerOffLoop \/ PowerOffExpect
    \/ PiOffExpect \/ PiSleep \/ PiOnSpawn \/ PiOnExpect
    \/ Return

SpecCreds == InitCreds /\ [][PhysicalNext]_vars

(* ------------------------ running to completion ----------------------- *)
\* consoles with the shortest timeouts; the calls leave the timeout
\* argument out or give a short one
LiveArgs == {0, 3}

InitLive ==
    /\ \E to \in {0, 1} :
          PhysicalConsole("cephN", ExampleCredentials, NoCredentials, to)
    /\ FreshCall
    /\ NoVirtual

LiveCalls ==
    \/ \E ta \in LiveArgs : check_power("on", ta)
    \/ \E ta \in LiveArgs : check_status(ta)
    \/ power_cycle
    \/ hard_reset
    \/ power_on
    \/ power_off
    \/ power_off_for_interval(1)

LiveSteps ==
    \/ WlFor \/ WlWhile \/ WlExpect \/ ExitSend \/ ExitExpect \/ WlAfterExit
    \/ CpWhile \/ CpExpect
    \/ PowerCycleExpect
    \/ HardResetLoop \/ HardResetExpect
    \/ PowerOnLoop \/ PowerOnExpect
    \/ PowerOffLoop \/ PowerOffExpect
    \/ PiOffExpect \/ PiSleep \/ PiOnSpawn \/ PiOnExpect
    \/ Return

\* the calls and the steps of the operations, on a clock that is read up
\* to MaxClock
LiveNext == (LiveCalls \/ LiveSteps) /\ now' <= MaxClock

\* a step that takes time
Advance == LiveNext /\ now' > now

\* the interpreter keeps executing the operation, and time does not stand
\* still for ever: of the steps that can take time, some do
SpecLive ==
    InitLive /\ [][LiveNext]_vars /\ WF_vars(LiveNext) /\ SF_vars(Advance)

(* ============================== claims ================================ *)
LoginWaitInvoked == wl_t # Unset
CheckPowerInvoked == cp_enter # Unset

\* _wait_for_login ended by raising ConsoleError (check_status turns it into False)
LoginWaitRaised ==
    /\ pc = "done" /\ LoginWaitInvoked
    /\ \/ result = "ConsoleError"
       \/ op = "check_status" /\ result = "False"

\* sessions of the current login wait that ended in TIMEOUT or EOF
FailedSessions == wl_to + wl_eof

(* C1: in _wait_for_login every 'sol activate' session is sent the         *)
(* deactivation sequence, whatever its expect outcome was, before the next *)
(* session is spawned and before the operation returns or raises: a        *)
(* session that has not been exited exists only between its spawn and the  *)
(* send of _exit_session.                                                  *)
C1_ExitBeforeLeaving == unexited => pc \in {"wl_expect", "ex_send"}

\* a login wait that saw an EOF session, a TIMEOUT session and a match,
\* exited each of them and returned
C1_Witness ==
    /\ op = "check_status" /\ pc = "done" /\ wl_r = 0
    /\ wl_eof >= 1 /\ wl_to >= 1 /\ ~unexited

(* C2 as stated: with a positive timeout, _wait_for_login raises after     *)
(* exactly 2 failed sessions.                                              *)
C2_ExactlyTwoSessions ==
    (LoginWaitRaised /\ wl_t > 0) => FailedSessions = DefaultAttempts

(* C2 amended: _wait_for_login raises after exactly 2 attempts, an attempt *)
(* being a time window of length t and not a session: with t > 0 at least  *)
(* 2 sessions have failed, exactly 2 when every session timed out, and at  *)
(* most one session of each window ends in TIMEOUT.                        *)
C2_TwoAttemptWindows ==
    LoginWaitRaised =>
        /\ wl_i = DefaultAttempts
        /\ wl_to <= DefaultAttempts
        /\ wl_t > 0 => FailedSessions >= DefaultAttempts
        /\ (wl_t > 0 /\ wl_eof = 0) => wl_to = DefaultAttempts

\* the login wait raised after more than 2 failed sessions
C2_Witness == LoginWaitRaised /\ wl_eof >= 2 /\ FailedSessions > DefaultAttempts

(* C3: no power transition (power_cycle, hard_reset, power_on, power_off)  *)
(* raises: whatever the expect outcomes are, it returns normally (stated   *)
(* for a console whose timeout is positive).                               *)
C3_TransitionsNeverRaise ==
    (op \in Transitions /\ pc = "done" /\ timeout > 0) => result = "None"

(* C4: check_power never runs longer than its overall timeout plus one     *)
(* backoff interval: at every point of the call the time since its entry   *)
(* is at most timeout plus the wait bound of the last attempt.             *)
C4_CheckPowerBounded ==
    CheckPowerInvoked => now - cp_enter <= cp_timeout + cp_last

\* check_power gave up after three or more sessions, the last one an EOF
\* whose remainder was slept out
C4_Witness ==
    /\ op = "check_power" /\ pc = "done" /\ result = "False"
    /\ cp_n >= 3 /\ cp_r = 1 /\ cp_slept > 0 /\ now - cp_enter > 0

(* C5: with libvirt loaded, constructing a VirtualConsole against a status *)
(* record with is_vm = false finishes without raising and leaves no domain *)
(* bound.                                                                  *)
C5_NotVmIsInert ==
    (/\ op = "VirtualConsole" /\ pc = "done" /\ libvirt
     /\ v_status.given /\ v_status.is_vm = "False")
        => (result = "None" /\ v_state = "constructed" /\ ~v_domain)

C7_CheckStatusBoolean ==
    (op = "check_status" /\ pc = "done") =>
        \/ result = "True" /\ wl_r = 0
        \/ result = "False" /\ wl_r # 0 /\ wl_i = DefaultAttempts

\* check_status returned False after a login wait whose sessions failed
C7_Witness ==
    /\ op = "check_status" /\ pc = "done" /\ result = "False"
    /\ wl_to >= 1 /\ wl_eof >= 1

\* the outcome of the last 'power status' expect
CpLastOutcome == IF cp_r = Unset THEN "none" ELSE CpPatterns[cp_r + 1]

\* check_power returned True: on a match, the only one, with nothing after it
CpTrueOnFirstMatch ==
    /\ result = "True"
    /\ CpLastOutcome = "match" /\ cp_hits = 1 /\ cp_slept = 0

(* C8 as stated: check_power returns True at once on the first match, and  *)
(* False, never an exception, only when no session matched and the         *)
(* accumulated wait exceeds the overall timeout.                           *)
C8_FalseOnlyWhenExceeded ==
    (kind = "physical" /\ op = "check_power" /\ pc = "done") =>
        \/ CpTrueOnFirstMatch
        \/ result = "False" /\ cp_hits = 0 /\ cp_total > cp_timeout

(* C8 amended: ... and False only when no session matched and the          *)
(* accumulated wait (the code's total) has reached or exceeded the overall *)
(* timeout.                                                                *)
C8_FalseOnlyWhenReached ==
    (kind = "physical" /\ op = "check_power" /\ pc = "done") =>
        \/ CpTrueOnFirstMatch
        \/ result = "False" /\ cp_hits = 0 /\ cp_total >= cp_timeout

\* check_power returned True on its third session, after an EOF and a TIMEOUT
C8_Witness ==
    /\ kind = "physical" /\ op = "check_power" /\ pc = "done" /\ result = "True"
    /\ cp_n = 3

PiPrefix(iv) == <<SpawnEv("power off"), SleepEv(iv), SpawnEv("power on")>>

(* C9: power_off_for_interval spawns 'power off', sleeps exactly once and  *)
(* for exactly the requested interval, spawns 'power on' only after the    *)
(* sleep, and then runs the login wait; with every session matching at     *)
(* once the whole call spawns power off, power on and sol activate.        *)
C9_OffSleepOnLogin ==
    op = "power_off_for_interval" =>
        /\ pc \in {"pi_off_expect", "pi_sleep"} => log = <<SpawnEv("power off")>>
        /\ pc = "pi_on_spawn" =>
              /\ log = <<SpawnEv("power off"), SleepEv(interval)>>
              /\ now >= interval
        /\ pc = "pi_on_expect" => log = PiPrefix(interval)
        /\ LoginWaitInvoked =>
              /\ Len(log) >= 3 /\ SubSeq(log, 1, 3) = PiPrefix(interval)
              /\ \A k \in 4..Len(log) : log[k].e = "spawn"
              /\ Len(log) >= 4 => log[4] = SpawnEv("sol activate")
        /\ (pc = "done" /\ result = "None" /\ FailedSessions = 0 /\ ex_r = 0) =>
              log = PiPrefix(interval) \o <<SpawnEv("sol activate")>>
        /\ (pc = "done" /\ result \in {"TIMEOUT", "EOF"}) => ~LoginWaitInvoked

\* the call returned with every session matching at once: the interval is
\* all the time it took
C9_Witness ==
    /\ op = "power_off_for_interval" /\ pc = "done" /\ result = "None"
    /\ FailedSessions = 0 /\ ex_r = 0 /\ now = interval /\ interval > 0

\* the acknowledgment step of a transition is over and raised nothing
AckEnded ==
    /\ op \in Transitions
    /\ pc \notin {"tr_while", "tr_expect"}
    /\ result \notin {"TIMEOUT", "EOF"}

AckGivenUp ==
    /\ op \in Transitions
    /\ pc \notin {"tr_while", "tr_expect"}
    /\ tr_r # 0

(* C11: each transition spawns its subcommand again after a session that   *)
(* ended in Timeout or EndOfStream as long as the overall timeout has not  *)
(* elapsed, and spawns it no more after the first acknowledgment: the      *)
(* acknowledgment step is left without an acknowledgment only once the     *)
(* overall timeout has elapsed, and an acknowledged transition is past its *)
(* spawn loop.                                                             *)
C11_RespawnUntilAckOrTimeout ==
    /\ AckGivenUp => now - tr_start >= timeout
    /\ (op \in Transitions /\ tr_r = 0) => pc \notin {"tr_while", "tr_expect"}

\* the same, for the three transitions that do have a spawn loop
C11_LoopedTransitions ==
    op # "power_cycle" => C11_RespawnUntilAckOrTimeout

\* an argument or a configuration entry supplies the value
Supplied(a, c) == a # None \/ c # None

(* C12 as stated: the credentials flag is true exactly when all three      *)
(* constructor arguments (user, password, domain) are set, false as soon   *)
(* as one of them is unset.                                                *)
C12_FlagFromArguments ==
    has_ipmi_credentials
        <=> (args.user # None /\ args.pass # None /\ args.domain # None)

(* C12, amended: the credentials flag is true exactly when each of user,   *)
(* password and domain is supplied by its argument or, failing that, by    *)
(* the configuration; it is false as soon as one of them has neither.      *)
C12_FlagFromResolved ==
    /\ has_ipmi_credentials
         <=> /\ Supplied(args.user, config.user)
             /\ Supplied(args.pass, config.pass)
             /\ Supplied(args.domain, config.domain)
    /\ has_ipmi_credentials
         <=> (ipmiuser # None /\ ipmipass # None /\ ipmidomain # None)
    /\ (config = NoCredentials) => C12_FlagFromArguments

\* a console used after it was built with the user missing everywhere and
\* the rest given: the flag is false; and one with all three: true
C12_Witness ==
    /\ op = "spawn_sol_log" /\ pc = "done"
    /\ args.user = None /\ config.user = None
    /\ args.pass # None /\ args.domain # None
    /\ ~has_ipmi_credentials

\* the command whose session the operation is waiting on, "" when it is
\* not inside an expect
Awaited ==
    CASE pc = "wl_expect" -> "sol activate"
      [] pc = "cp_expect" -> "power status"
      [] pc = "tr_expect" -> TrCmd(op)
      [] pc = "pi_off_expect" -> "power off"
      [] pc = "pi_on_expect" -> "power on"
      [] OTHER -> ""

\* what an operation hands back or raises for reasons of its sessions
SessionResults == {"none", "None", "True", "False", "Popen"} \cup Raised

(* C13: missing credentials are not fatal. On a console whose credentials  *)
(* flag is false every spawn logs the error and still starts the process:  *)
(* whenever an operation waits on a session, that session's process was    *)
(* started and is alive, every started process is on record with the error *)
(* logged before it, and an operation ends only with a result that its     *)
(* sessions account for (a return value, Timeout, EndOfStream or the login *)
(* failure), never with an error of the credentials check. With            *)
(* credentials nothing is logged as an error.                              *)
C13_MissingCredentialsNonFatal ==
    /\ Awaited # "" => \E k \in 1..Len(live) : live[k] = Awaited
    /\ \A k \in 1..Len(log) :
         log[k].e \in {"spawn", "popen"} => (log[k].err <=> ~has_ipmi_credentials)
    /\ result \in SessionResults

\* without credentials, power_on went through its acknowledgment and its
\* power check and returned
C13_Witness ==
    /\ ~has_ipmi_credentials
    /\ op = "power_on" /\ pc = "done" /\ result = "None"
    /\ tr_r = 0 /\ cp_hits = 1
    /\ Len(log) = 2 /\ log[1].err /\ log[2].err

\* the documented template '<client> -H <short_name>.<domain> -I lanplus
\* -U <user> -P <password> <subcommand>'
Template(client, short, dn, user, pass, sub) ==
    client \o " -H " \o short \o "." \o dn \o " -I lanplus -U " \o user \o " -P "
        \o pass \o " " \o sub

ExampleLine == "ipmitool -H cephN.example.com -I lanplus -U u -P p power status"

\* the console of the documented example
ExampleConsole ==
    /\ shortname = "cephN" /\ ipmidomain = "example.com"
    /\ ipmiuser = "u" /\ ipmipass = "p"

(* C14: the command line of every started process equals the documented    *)
(* template with the console's short name, domain, user and password and   *)
(* the subcommand filled in; on the console cephN / example.com / u / p    *)
(* the subcommand 'power status' gives the documented line.                *)
C14_CommandLine ==
    \A k \in 1..Len(log) :
        log[k].e \in {"spawn", "popen"} =>
            /\ log[k].line = Template("ipmitool", Fmt(shortname), Fmt(ipmidomain),
                                      Fmt(ipmiuser), Fmt(ipmipass), log[k].cmd)
            /\ (ExampleConsole /\ log[k].cmd = "power status")
                   => log[k].line = ExampleLine

\* the example console has started 'power status'
C14_Witness ==
    /\ ExampleConsole
    /\ pc = "cp_expect"
    /\ \E k \in 1..Len(log) : log[k].cmd = "power status" /\ log[k].line = ExampleLine

\* check_power is about to spawn again after an attempt that ended in EOF
RespawnAfterEof ==
    /\ pc = "cp_while" /\ cp_n >= 1 /\ cp_r = 1
    /\ cp_continue(cp_total, cp_timeout)

(* C15: in check_power, after every attempt that ended in EndOfStream, at  *)
(* least the wait bound of that attempt has passed since its spawn when    *)
(* the next attempt is spawned.                                            *)
C15_EofAttemptsSpaced ==
    RespawnAfterEof => now - cp_spawn >= cp_last

\* the same, for the first attempt only
C15_FirstAttemptSpaced ==
    (RespawnAfterEof /\ cp_n = 1) => now - cp_spawn >= cp_last

\* 'sol deactivate' is among the live sessions
DeactivateSpawned == \E k \in 1..Len(live) : live[k] = "sol deactivate"

(* C16: when _exit_session is over, the deactivation sequence has been     *)
(* sent, and 'sol deactivate' has been spawned exactly when the wait for   *)
(* 'terminated ipmitool' ended in Timeout or EndOfStream, not when the     *)
(* acknowledgment was matched; nothing else spawns 'sol deactivate'.       *)
C16_DeactivateOnNoAck ==
    /\ pc = "wl_exited" =>
          /\ ~unexited
          /\ ex_r \in 0..2
          /\ DeactivateSpawned <=> ExitPatterns[ex_r + 1] \in {"TIMEOUT", "EOF"}
    /\ DeactivateSpawned => pc = "wl_exited"

\* _exit_session ended in EndOfStream and has spawned 'sol deactivate'
C16_Witness ==
    /\ pc = "wl_exited" /\ ExitPatterns[ex_r + 1] = "EOF"
    /\ DeactivateSpawned

\* check_power is over without a match
CheckPowerFailed ==
    /\ pc = "done" /\ CheckPowerInvoked /\ cp_hits = 0
    /\ op \in {"check_power", "power_on", "power_off"}

(* C17: in check_power the k-th attempt waits with bound 2^(k-1) and is    *)
(* made only when 2^k - 1 is less than the overall timeout; check_power    *)
(* gives up without a match exactly when the next attempt's 2^(k+1) - 1    *)
(* has reached the overall timeout, so the sum 2^k - 1 of the bounds of    *)
(* the k attempts made is less than the overall timeout; with an overall   *)
(* timeout of 1 no session is spawned and false is returned.               *)
C17_BackoffSchedule ==
    /\ pc = "cp_expect" =>
          /\ cp_t = 2^(cp_n - 1)
          /\ 2^cp_n - 1 < cp_timeout
    /\ pc = "cp_while" =>
          /\ cp_t = 2^cp_n
          /\ cp_total = 2^(cp_n + 1) - 1
    /\ CheckPowerFailed =>
          /\ 2^(cp_n + 1) - 1 >= cp_timeout
          /\ cp_n >= 1 => 2^cp_n - 1 < cp_timeout
          /\ op = "check_power" => result = "False"
    /\ (CheckPowerInvoked /\ cp_timeout = 1) =>
          /\ cp_n = 0
          /\ \A k \in 1..Len(log) : log[k].cmd # "power status"
          /\ pc \in {"cp_while", "done"}

\* four attempts with bounds 1, 2, 4, 8 under the overall timeout 20, and
\* no fifth: 31 is not less than 20
C17_Witness ==
    /\ op = "check_power" /\ pc = "done" /\ result = "False"
    /\ cp_timeout = DefaultTimeout /\ cp_n = 4 /\ cp_last = 8

(* C18: every operation of the physical console that was called            *)
(* eventually returns or raises, whatever the sessions do, as long as the  *)
(* operation keeps being executed and time advances.                       *)
C18_OperationsEnd == (op # "none") ~> (pc = "done")

\* the clock a running operation reads stays below MaxClock
C18_ClockInRange == now < MaxClock

\* the login wait of power_cycle gave up after its sessions ended in
\* EndOfStream
C18_Witness ==
    /\ op = "power_cycle" /\ pc = "done" /\ result = "ConsoleError"
    /\ wl_eof >= 2 /\ wl_to = 0

\* the fields of the console that __init__ resolved
ResolvedFields ==
    <<ipmiuser, ipmipass, ipmidomain, has_ipmi_credentials, shortname, timeout>>

\* nothing of the last call is left on the console
NothingKept ==
    /\ arg_state = "none" /\ result = "none"
    /\ cp_r = Unset /\ cp_hits = 0 /\ cp_n = 0

(* C19: no step of any operation of a physical console changes the         *)
(* resolved user, password, domain, credentials flag, short name or        *)
(* timeout; and no power state is kept: a console that is ready for the    *)
(* next call holds nothing of the last one, and check_power answers true   *)
(* only on a match in a session of its own.                                *)
C19_FieldsUnchanged ==
    [][/\ kind = "physical" => UNCHANGED ResolvedFields
       /\ pc' = "idle" => NothingKept'
       /\ (op' = "check_power" /\ result' = "True") => (cp_n' >= 1 /\ cp_hits' = 1)
      ]_vars

\* check_power ran with a timeout argument of its own on a console that
\* lacks credentials, and returned
C19_Witness ==
    /\ op = "check_power" /\ pc = "done" /\ result = "True"
    /\ cp_timeout # timeout
    /\ ~has_ipmi_credentials

====
